---- MODULE Spec2Model ----
(***************************************************************************)
(* A model of sorastats' terminal dashboard (src/ui.rs): the tab           *)
(* predicate, the retained history of stats snapshots, the aggregation of  *)
(* the newest snapshot and the event loop of App::run.                     *)
(***************************************************************************)
EXTENDS Integers, Sequences, FiniteSets

(***************************************************************************)
(* Bounds of the model.                                                    *)
(***************************************************************************)
\* longest list of connections in one snapshot
MaxConns == 3
\* largest number of configured tabs
MaxTabs == 2
\* largest configured retention period, in clock ticks
MaxRetention == 2
\* the default of --retention-period, in seconds
DefaultRetentionPeriod == 600
\* the monotonic clock is followed up to this reading
MaxClock == 3
\* largest advance of the clock between two readings inside the eviction loop
MaxDelay == 1
\* longest history followed
MaxHistory == 2
\* largest selected row followed
MaxSelected == 2
\* bits of mantissa of the model's floating-point sum (f64 has 53)
MantBits == 3
\* longest text given to Tab::from_str
MaxSpecLen == 4
\* most input events, and most snapshots, that wait to be read
MaxPending == 1

(***************************************************************************)
(* Stats values (crate::stats::StatsValue): a number or any other value,   *)
(* kept in its string form.                                                *)
(***************************************************************************)
Number(n) == [kind |-> "Number", n |-> n, s |-> ""]

Other(s) == [kind |-> "Other", n |-> 0, s |-> s]

IsNumber(v) == v.kind = "Number"

Digit == <<"0", "1", "2", "3", "4", "5", "6", "7", "8", "9">>

RECURSIVE DecimalString(_)
\* the decimal digits of a natural number (Display of an integral f64, of a usize)
DecimalString(n) ==
    IF n < 10 THEN Digit[n + 1]
    ELSE DecimalString(n \div 10) \o Digit[(n % 10) + 1]

\* v.to_string(): a number prints its digits, another value prints itself
to_string(v) == IF IsNumber(v) THEN DecimalString(v.n) ELSE v.s

\* the keys of the stats, in ascending (BTreeMap) order
SortedKeys == <<"a", "b">>

Keys == {SortedKeys[i] : i \in DOMAIN SortedKeys}

\* the values a connection may report for a key
KeyValues(k) ==
    IF k = "a" THEN {Number(1), Number(2), Number(8), Other("x")}
    ELSE {Other("1")}

Pair(k, v) == [k |-> k, v |-> v]

RECURSIVE IterOrders(_)
\* every order in which the elements of a finite set can be iterated
IterOrders(S) ==
    IF S = {} THEN {<<>>}
    ELSE UNION {{<<x>> \o rest : rest \in IterOrders(S \ {x})} : x \in S}

\* Stats: a map from key to value, as the sequence of pairs its iteration yields
StatsPool ==
    UNION {UNION {{[i \in DOMAIN ks |-> Pair(ks[i], f[ks[i]])] :
                      f \in {g \in [ks2 -> UNION {KeyValues(k) : k \in Keys}] :
                                \A k \in ks2 : g[k] \in KeyValues(k)}} :
                  ks \in IterOrders(ks2)} :
           ks2 \in SUBSET Keys}

\* the string forms of all values of the model
ValueStrings == {to_string(v) : v \in UNION {KeyValues(k) : k \in Keys}}

(***************************************************************************)
(* Tabs.  A regex::Regex is modelled by its language: the set of the       *)
(* model's strings that Regex::is_match accepts.                           *)
(***************************************************************************)
RegexIsMatch(re, s) == s \in re

\* the tab of the default option, "total=.*:.*"
TotalTab == [name |-> "total", key_regex |-> Keys, value_regex |-> ValueStrings]

\* "one=a:^1$"
OneTab == [name |-> "one", key_regex |-> {"a"}, value_regex |-> {"1"}]

\* "b=b:.*"
BTab == [name |-> "b", key_regex |-> {"b"}, value_regex |-> ValueStrings]

TabPool == <<TotalTab, OneTab, BTab>>

\* the i-th --tab option of the command line
TabOption(i) == TabPool[((i - 1) % Len(TabPool)) + 1]

\* the pair mistaken for two independent tests, one per pattern
is_match_split(tab, stats) ==
    /\ \E i \in DOMAIN stats : RegexIsMatch(tab.key_regex, stats[i].k)
    /\ \E i \in DOMAIN stats : RegexIsMatch(tab.value_regex, to_string(stats[i].v))

RECURSIVE is_match(_, _)
\* Tab::is_match: Iterator::any over the pairs, stopping at the first match
is_match(tab, stats) ==
    IF stats = <<>> THEN FALSE
    ELSE IF /\ RegexIsMatch(tab.key_regex, Head(stats).k)
            /\ RegexIsMatch(tab.value_regex, to_string(Head(stats).v))
         THEN TRUE
         ELSE is_match(tab, Tail(stats))

(***************************************************************************)
(* f64 addition, with a mantissa of MantBits bits: the exact sum rounded   *)
(* to the nearest representable value, ties to even.                       *)
(***************************************************************************)
RECURSIVE BitLen(_)
BitLen(n) == IF n = 0 THEN 0 ELSE 1 + BitLen(n \div 2)

Round(n) ==
    LET e == BitLen(n) - MantBits
    IN  IF e <= 0 THEN n
        ELSE LET u == 2 ^ e
                 q == n \div u
                 r == n % u
             IN  IF r * 2 < u \/ (r * 2 = u /\ q % 2 = 0) THEN q * u ELSE (q + 1) * u

FAdd(x, y) == Round(x + y)

(***************************************************************************)
(* StatsItem and the aggregation of the newest snapshot.                   *)
(***************************************************************************)
\* StatsItem::default()
DefaultStatsItem == [key |-> "", values |-> {}]

Ok(x) == [tag |-> "Ok", val |-> x]

Err(x) == [tag |-> "Err", val |-> x]

RECURSIVE SumValuesSkipOther(_, _, _)
\* the loop that passes over the values that are no numbers
SumValuesSkipOther(sum, iter, len) ==
    IF iter = <<>> THEN Ok(sum)
    ELSE SumValuesSkipOther(IF IsNumber(Head(iter)) THEN FAdd(sum, Head(iter).n) ELSE sum,
                            Tail(iter), len)

RECURSIVE SumValues(_, _, _)
\* the loop of aggregated_value over the values as the HashSet iterates them
SumValues(sum, iter, len) ==
    IF iter = <<>> THEN Ok(sum)
    ELSE IF IsNumber(Head(iter)) THEN SumValues(FAdd(sum, Head(iter).n), Tail(iter), len)
         ELSE Err(len)

\* StatsItem::aggregated_value, iter being the iteration order of item.values
aggregated_value(item, iter) == SumValues(0, iter, Cardinality(item.values))

\* the value of a key that is already there replaced by the new one
InsertPairReplace(items, p) ==
    [k \in DOMAIN items \cup {p.k} |->
        IF k = p.k THEN [key |-> p.k, values |-> {p.v}] ELSE items[k]]

\* the entry of a key that is already there left as it is
InsertPairKeepFirst(items, p) ==
    IF p.k \in DOMAIN items THEN items
    ELSE [k \in DOMAIN items \cup {p.k} |->
             IF k = p.k THEN [key |-> p.k, values |-> {p.v}] ELSE items[k]]

\* items.entry(k).or_default(), then the key is set and the value inserted
InsertPair(items, p) ==
    LET entry == IF p.k \in DOMAIN items THEN items[p.k] ELSE DefaultStatsItem
        updated == [key |-> p.k, values |-> entry.values \cup {p.v}]
    IN  [k \in DOMAIN items \cup {p.k} |-> IF k = p.k THEN updated ELSE items[k]]

RECURSIVE InsertStats(_, _)
\* the inner loop of latest_stats: every pair of one connection
InsertStats(items, stats) ==
    IF stats = <<>> THEN items
    ELSE InsertStats(InsertPair(items, Head(stats)), Tail(stats))

RECURSIVE CollectConnections(_, _, _)
\* the outer loop of latest_stats: the connections that match the tab
CollectConnections(items, conns, tab) ==
    IF conns = <<>> THEN items
    ELSE CollectConnections(
             IF is_match(tab, Head(conns).stats) THEN InsertStats(items, Head(conns).stats)
             ELSE items,
             Tail(conns), tab)

\* the oldest retained snapshot in place of the newest
Front(history) == history[1]

\* history.back()
Back(history) == history[Len(history)]

\* Ui::latest_stats: the items of the BTreeMap in ascending key order
latest_stats(history, tab) ==
    LET items == CollectConnections([k \in {} |-> DefaultStatsItem],
                                    Back(history).connections, tab)
        keys == SelectSeq(SortedKeys, LAMBDA k : k \in DOMAIN items)
    IN  [i \in DOMAIN keys |-> items[keys[i]]]

\* the cells of one row of the aggregated table: Key, Sum, Uniq
RowCells(item, iter) ==
    LET agg == aggregated_value(item, iter)
    IN  IF agg.tag = "Ok"
        THEN [key |-> item.key, sum |-> DecimalString(agg.val), uniq |-> ""]
        ELSE [key |-> item.key, sum |-> "", uniq |-> DecimalString(agg.val)]

RECURSIVE SeqProduct(_)
\* all ways to pick one element from each set of a sequence of sets
SeqProduct(ss) ==
    IF ss = <<>> THEN {<<>>}
    ELSE {<<h>> \o t : h \in Head(ss), t \in SeqProduct(Tail(ss))}

\* Ui::draw_aggregated_stats: the frames it can render, one per way the
\* HashSets of the rows iterate
AggregatedFrames(history, tab) ==
    LET items == latest_stats(history, tab)
    IN  {[items |-> items,
          rows |-> [i \in DOMAIN items |-> RowCells(items[i], iters[i])]] :
            iters \in SeqProduct([i \in DOMAIN items |-> IterOrders(items[i].values)])}

(***************************************************************************)
(* The state of the program.                                               *)
(***************************************************************************)
VARIABLES
    opt,             \* UiOpts: retention_period and the tabs
    history,         \* Ui.history, oldest first
    tab_index,       \* Ui.tab_index
    table_state,     \* Ui.table_state: selected is <<>> (None) or <<i>> (Some(i))
    pc,              \* where the program is: "new", "key", "poll", "done"
    result,          \* what the program ended with: "none", "Ok", "Err", "Panic"
    raw_mode,        \* whether the terminal is in raw mode
    teardown_calls,  \* how many times teardown_terminal has been called
    clock,           \* the last reading the program took of the monotonic clock
    last,            \* the last step of the program: what it handled, how its redraw ended,
                     \* the timestamp it gave to a snapshot
    screen,          \* the aggregated table last rendered
    matched,         \* the result of the last call of Tab::is_match made on its own: <<>> or <<b>>
    parsed,          \* the text given to Tab::from_str and, once it has run, its result
    events,          \* the input events that are pending, oldest first
    rx               \* the snapshots that are pending in the channel, oldest first

vars == <<opt, history, tab_index, table_state, pc, result, raw_mode, teardown_calls,
          clock, last, screen, matched, parsed, events, rx>>

ConnectionStats(stats) == [stats |-> stats]

HistoryItem(timestamp, connections) == [timestamp |-> timestamp, connections |-> connections]

\* nothing rendered yet
NoFrame == [items |-> <<>>, rows |-> <<>>]

\* the snapshots the polling thread sends in the event loop's model
SnapshotPool ==
    {<<ConnectionStats(<<Pair("a", Number(1)), Pair("b", Other("1"))>>)>>,
     <<ConnectionStats(<<Pair("a", Number(2))>>), ConnectionStats(<<Pair("a", Other("x"))>>)>>}

KeyCodes == {"q", "Right", "Left", "Up", "Down", "Other"}

\* Event::Key(code) for the key codes, and "Resize" for the events that are no key
Events == KeyCodes \cup {"Resize"}

\* no text is being parsed
NoParse == [s |-> <<>>, result |-> <<>>]

NoStep == [op |-> "none", draw |-> "none", stamp |-> 0]

Step(op) == [NoStep EXCEPT !.op = op]

\* Ui::new
UiNew ==
    /\ history = <<>>
    /\ tab_index = 0
    /\ table_state = [selected |-> <<>>]

\* main: the options are parsed, the channel is created, App::new is about to be called
Init ==
    /\ \E r \in 0..MaxRetention, n \in 1..MaxTabs :
           opt = [retention_period |-> r, tab |-> [i \in 1..n |-> TabOption(i)]]
    /\ UiNew
    /\ pc = "new"
    /\ result = "none"
    /\ raw_mode = FALSE
    /\ teardown_calls = 0
    /\ clock = 0
    /\ last = NoStep
    /\ screen = NoFrame
    /\ matched = <<>>
    /\ parsed = NoParse
    /\ events = <<>>
    /\ rx = <<>>

(***************************************************************************)
(* The terminal.                                                           *)
(***************************************************************************)
\* App::teardown_terminal: disable_raw_mode may fail, and then nothing is released
teardown_terminal ==
    /\ teardown_calls' = teardown_calls + 1
    /\ \E disabled \in BOOLEAN : raw_mode' = (raw_mode /\ ~disabled)

\* Drop for App
DropApp == teardown_terminal

\* App::run returns (or unwinds): self is dropped
Return(res) ==
    /\ pc' = "done"
    /\ result' = res
    /\ DropApp

\* the handler returned Ok and the loop goes on
Continue(next) ==
    /\ pc' = next
    /\ UNCHANGED <<result, raw_mode, teardown_calls>>

\* App::new, every step of setup_terminal succeeding
AppNew ==
    /\ pc = "new"
    /\ raw_mode' = TRUE
    /\ pc' = "key"
    /\ last' = Step("new")
    /\ UNCHANGED <<opt, history, tab_index, table_state, result, teardown_calls, clock,
                   screen, matched, parsed, events, rx>>

\* App::new, a step of setup_terminal failing: no App is built, none is dropped
AppNewFails ==
    /\ pc = "new"
    /\ \E step \in {"enable_raw_mode", "execute", "Terminal::new"} :
           /\ raw_mode' = (step # "enable_raw_mode")
           /\ last' = Step(step)
    /\ pc' = "done"
    /\ result' = "Err"
    /\ UNCHANGED <<opt, history, tab_index, table_state, teardown_calls, clock, screen,
                   matched, parsed, events, rx>>

(***************************************************************************)
(* Drawing.                                                                *)
(***************************************************************************)
\* terminal.draw(|f| self.ui.draw(f))?, h and ti being the history and the tab
\* index it sees and step what the handler has done so far: the frame is drawn and
\* the handler goes on to pc next; or the backend fails and the error is returned;
\* or latest_stats finds no snapshot (or Ui::draw no tab at the index) and panics,
\* which unwinds out of run
Draw(h, ti, step, next) ==
    \/ /\ h # <<>> /\ ti < Len(opt.tab)
       /\ \E f \in AggregatedFrames(h, opt.tab[ti + 1]) : screen' = f
       /\ last' = [step EXCEPT !.draw = "ok"]
       /\ Continue(next)
    \/ /\ last' = [step EXCEPT !.draw = "err"]
       /\ Return("Err")
       /\ screen' = screen
    \/ /\ h = <<>> \/ ti >= Len(opt.tab)
       /\ last' = [step EXCEPT !.draw = "panic"]
       /\ Return("Panic")
       /\ screen' = screen

(***************************************************************************)
(* The input phase: App::handle_key_event.                                 *)
(***************************************************************************)
Min(x, y) == IF x <= y THEN x ELSE y

\* usize::saturating_sub
saturating_sub(x, y) == IF x >= y THEN x - y ELSE 0

\* the tab to the right, without the clamp to the last tab
RightTabUnclamped(ti, ntabs) == ti + 1

\* KeyCode::Right: the tab to the right, the last tab at most
RightTab(ti, ntabs) == Min(ti + 1, ntabs - 1)

\* KeyCode::Left: the tab to the left, the first tab at least
LeftTab(ti) == saturating_sub(ti, 1)

\* the row above, without the floor at row 0
UpRowUnfloored(selected) == IF selected # <<>> THEN selected[1] - 1 ELSE 0

\* KeyCode::Up: the row above the selected one, row 0 when none is selected
UpRow(selected) == IF selected # <<>> THEN saturating_sub(selected[1], 1) ELSE 0

\* the row below, the last row of a table of all keys at most
DownRowClamped(selected) ==
    IF selected # <<>> THEN Min(selected[1] + 1, Cardinality(Keys) - 1) ELSE 0

\* KeyCode::Down: the row below the selected one, row 0 when none is selected
DownRow(selected) == IF selected # <<>> THEN selected[1] + 1 ELSE 0

\* what a navigation key makes of the tab index ti and the selection
Apply(code, ti, selected) ==
    CASE code = "Right" -> <<RightTab(ti, Len(opt.tab)), selected>>
      [] code = "Left" -> <<LeftTab(ti), selected>>
      [] code = "Up" -> <<ti, <<UpRow(selected)>>>>
      [] code = "Down" -> <<ti, <<DownRow(selected)>>>>

\* event::read yields event e: the oldest pending event, which leaves the queue;
\* with nothing pending, an event that comes in and is read at once
ReadEvent(e) ==
    /\ IF events # <<>> THEN Head(events) = e /\ events' = Tail(events)
       ELSE events' = events
    /\ rx' = rx

\* event::poll or event::read fails: the error is returned from run
KeyIoError ==
    /\ pc = "key"
    /\ UNCHANGED <<events, rx>>
    /\ last' = Step("io error")
    /\ Return("Err")
    /\ UNCHANGED <<opt, history, tab_index, table_state, clock, screen, matched, parsed>>

\* event::poll(0) finds no event pending
KeyNone ==
    /\ pc = "key"
    /\ events = <<>>
    /\ UNCHANGED <<events, rx>>
    /\ last' = Step("no event")
    /\ Continue("poll")
    /\ UNCHANGED <<opt, history, tab_index, table_state, clock, screen, matched, parsed>>

\* the quit that lets the data phase of its tick run first
KeyQuitAfterData ==
    /\ pc = "key"
    /\ ReadEvent("q")
    /\ last' = Step("q")
    /\ Continue("poll")
    /\ UNCHANGED <<opt, history, tab_index, table_state, clock, screen, matched, parsed>>

\* the event read is KeyCode::Char('q'): handle_key_event returns true, run breaks
\* and returns Ok
KeyQuit ==
    /\ pc = "key"
    /\ ReadEvent("q")
    /\ last' = Step("q")
    /\ Return("Ok")
    /\ UNCHANGED <<opt, history, tab_index, table_state, clock, screen, matched, parsed>>

\* the switch to another tab that also drops the selection
SwitchTabResetRow(ti, event) ==
    /\ tab_index' = ti
    /\ IF ti # tab_index
       THEN /\ table_state' = [table_state EXCEPT !.selected = <<>>]
            /\ Draw(history, ti, Step(event), "poll")
       ELSE /\ table_state' = table_state
            /\ last' = Step(event)
            /\ Continue("poll")
            /\ screen' = screen
    /\ UNCHANGED <<opt, history, clock, matched, parsed>>

\* the tab index becomes ti: a redraw when it changed, nothing otherwise
SwitchTab(ti, event) ==
    /\ tab_index' = ti
    /\ IF ti # tab_index
       THEN Draw(history, ti, Step(event), "poll")
       ELSE /\ last' = Step(event)
            /\ Continue("poll")
            /\ screen' = screen
    /\ UNCHANGED <<opt, history, table_state, clock, matched, parsed>>

KeyRight ==
    /\ pc = "key"
    /\ ReadEvent("Right")
    /\ SwitchTab(RightTab(tab_index, Len(opt.tab)), "Right")

KeyLeft ==
    /\ pc = "key"
    /\ ReadEvent("Left")
    /\ SwitchTab(LeftTab(tab_index), "Left")

\* row i is selected and the table redrawn
SelectRow(i, event) ==
    /\ table_state' = [table_state EXCEPT !.selected = <<i>>]
    /\ Draw(history, tab_index, Step(event), "poll")
    /\ UNCHANGED <<opt, history, tab_index, clock, matched, parsed>>

KeyUp ==
    /\ pc = "key"
    /\ ReadEvent("Up")
    /\ SelectRow(UpRow(table_state.selected), "Up")

KeyDown ==
    /\ pc = "key"
    /\ ReadEvent("Down")
    /\ DownRow(table_state.selected) <= MaxSelected
    /\ SelectRow(DownRow(table_state.selected), "Down")

\* a key without a meaning that redraws the table all the same
KeyIgnoredRedraw ==
    /\ pc = "key"
    /\ \E e \in Events \ {"q", "Right", "Left", "Up", "Down"} :
           ReadEvent(e) /\ Draw(history, tab_index, Step(e), "poll")
    /\ UNCHANGED <<opt, history, tab_index, table_state, clock, matched, parsed>>

\* any other key, and any event that is no key: read and dropped
KeyIgnored ==
    /\ pc = "key"
    /\ \E e \in Events \ {"q", "Right", "Left", "Up", "Down"} :
           ReadEvent(e) /\ last' = Step(e)
    /\ Continue("poll")
    /\ UNCHANGED <<opt, history, tab_index, table_state, clock, screen, matched, parsed>>

(***************************************************************************)
(* The data phase: App::handle_stats_poll.                                 *)
(***************************************************************************)
RECURSIVE SumSeq(_)
SumSeq(s) == IF s = <<>> THEN 0 ELSE Head(s) + SumSeq(Tail(s))

RECURSIVE EvictLoop(_, _, _, _)
\* the while loop of handle_stats_poll: the head is popped and, tested against the
\* clock as it reads at that moment (now plus the next delay), pushed back, which
\* ends the loop, or dropped
EvictLoop(h, now, delays, retention_period) ==
    IF h = <<>> THEN [history |-> h, clock |-> now]
    ELSE LET t == now + Head(delays)
         IN  IF t - Head(h).timestamp < retention_period
             THEN [history |-> h, clock |-> t]
             ELSE EvictLoop(Tail(h), t, Tail(delays), retention_period)

\* recv_timeout yields the oldest pending snapshot, which leaves the channel; with
\* nothing pending, a snapshot that is sent within the timeout
Recv(connections) ==
    /\ IF rx # <<>> THEN Head(rx) = connections /\ rx' = Tail(rx)
       ELSE rx' = rx
    /\ events' = events

\* recv_timeout: nothing is pending and nothing arrives in 10 ms
PollTimeout ==
    /\ pc = "poll"
    /\ rx = <<>>
    /\ UNCHANGED <<events, rx>>
    /\ last' = Step("Timeout")
    /\ Continue("key")
    /\ UNCHANGED <<opt, history, tab_index, table_state, clock, screen, matched, parsed>>

\* a disconnected channel taken for a timeout: the loop goes on
PollDisconnectedRetry ==
    /\ pc = "poll"
    /\ rx = <<>>
    /\ UNCHANGED <<events, rx>>
    /\ last' = Step("Disconnected")
    /\ Continue("key")
    /\ UNCHANGED <<opt, history, tab_index, table_state, clock, screen, matched, parsed>>

\* recv_timeout: the sender is gone and nothing is pending; run returns the error
PollDisconnected ==
    /\ pc = "poll"
    /\ rx = <<>>
    /\ UNCHANGED <<events, rx>>
    /\ last' = Step("Disconnected")
    /\ Return("Err")
    /\ UNCHANGED <<opt, history, tab_index, table_state, clock, screen, matched, parsed>>

\* recv_timeout: a snapshot arrives; it is stamped and pushed, the old items are
\* evicted and the table is redrawn
PollSnapshot ==
    /\ pc = "poll"
    /\ Len(history) < MaxHistory
    /\ \E connections \in SnapshotPool, d \in 0..(MaxClock - clock),
          delays \in [1..(Len(history) + 1) -> 0..MaxDelay] :
           /\ d + SumSeq(delays) <= MaxClock - clock
           /\ Recv(connections)
           /\ LET pushed == Append(history, HistoryItem(clock + d, connections))
                  kept == EvictLoop(pushed, clock + d, delays, opt.retention_period)
              IN  /\ history' = kept.history
                  /\ clock' = kept.clock
                  /\ Draw(kept.history, tab_index, [Step("Ok") EXCEPT !.stamp = clock + d], "key")
    /\ UNCHANGED <<opt, tab_index, table_state, matched, parsed>>

Next ==
    \/ AppNew
    \/ AppNewFails
    \/ KeyIoError
    \/ KeyNone
    \/ KeyQuit
    \/ KeyRight
    \/ KeyLeft
    \/ KeyUp
    \/ KeyDown
    \/ KeyIgnored
    \/ PollTimeout
    \/ PollDisconnected
    \/ PollSnapshot

Spec == Init /\ [][Next]_vars

(***************************************************************************)
(* Properties of the event loop.                                           *)
(***************************************************************************)
StrictlyIncreasing(h) == \A i, j \in DOMAIN h : i < j => h[i].timestamp < h[j].timestamp

\* a step of PollSnapshot: the data phase received a snapshot
IngestStep == pc = "poll" /\ last'.op = "Ok"

\* C1: retention is exact. When a snapshot s_n is ingested into a history of
\* strictly increasing timestamps, the history afterwards holds exactly the
\* snapshots s_i, s_n included, with s_n.timestamp - s_i.timestamp below the
\* retention period: none that is older, and all that are not.
RetentionExact ==
    [][IngestStep =>
          \E connections \in SnapshotPool :
              LET s_n == HistoryItem(last'.stamp, connections)
                  all == Append(history, s_n)
              IN  StrictlyIncreasing(all) =>
                      history' = SelectSeq(all, LAMBDA s_i :
                                     s_n.timestamp - s_i.timestamp < opt.retention_period)]_vars

\* C2: a redraw that a navigation key triggers while no snapshot is retained
\* renders an empty table and the loop goes on to the data phase (a failure of
\* the backend aside, which has nothing to do with the empty window).
EmptyRedrawSucceeds ==
    (last.op \in {"Up", "Down", "Left", "Right"} /\ last.draw # "none" /\ history = <<>>)
        => \/ last.draw = "err"
           \/ last.draw = "ok" /\ screen.rows = <<>> /\ pc = "poll"

\* C3: right after a snapshot is ingested the history is not empty and its newest
\* entry is that snapshot, whatever the retention period.
NewestIsIngested ==
    last.op = "Ok" => history # <<>> /\ Back(history).timestamp = last.stamp

\* C4: the tab index stays within 0..len(tabs)-1 in every reachable state, and
\* Right at the last tab and Left at tab 0 leave it unchanged.
TabIndexInRange ==
    /\ [](tab_index \in 0..(Len(opt.tab) - 1))
    /\ [][/\ (pc = "key" /\ last'.op = "Right" /\ tab_index = Len(opt.tab) - 1)
               => tab_index' = tab_index
          /\ (pc = "key" /\ last'.op = "Left" /\ tab_index = 0)
               => tab_index' = tab_index]_vars

\* Right has been handled at the last of several tabs: no change, no redraw
RightAtLastTab ==
    /\ last.op = "Right" /\ last.draw = "none"
    /\ Len(opt.tab) > 1 /\ tab_index = Len(opt.tab) - 1

\* C5: when the receive reports Disconnected the loop has ended with an error (no
\* handler runs again) and teardown_terminal has been called exactly once.
DisconnectedEndsLoop ==
    last.op = "Disconnected" => pc = "done" /\ result = "Err" /\ teardown_calls = 1

\* the sender went away after a snapshot had been ingested and drawn
DisconnectedAfterSnapshot == last.op = "Disconnected" /\ history # <<>>

\* C6: on every exit after raw mode was enabled, a failure part-way through
\* setup_terminal included, teardown_terminal has been called exactly once.
TeardownOnEveryExit ==
    (pc = "done" /\ last.op # "enable_raw_mode") => teardown_calls = 1

\* the timestamps of a history
Stamps(h) == [i \in DOMAIN h |-> [timestamp |-> h[i].timestamp]]

\* C12: eviction is decided by the timestamps alone. When a snapshot is ingested,
\* the snapshots retained are those that every pass over the same stored
\* timestamps retains, with the same timestamp of the new snapshot and the same
\* retention period, however the clock advances during the pass.
EvictionDeterministic ==
    [][IngestStep =>
          \A delays \in [1..(Len(history) + 1) -> 0..MaxDelay] :
              LET pushed == Append(Stamps(history), [timestamp |-> last'.stamp])
                  other == EvictLoop(pushed, last'.stamp, delays, opt.retention_period)
              IN  Stamps(history') = other.history]_vars

(***************************************************************************)
(* The aggregation on its own: the Ui holds an older snapshot and a newest *)
(* one drawn from all lists of up to MaxConns connections; the table is    *)
(* drawn, and the newest snapshot is handed over in other orders.          *)
(***************************************************************************)
\* all sequences of at most n elements of S
SeqsUpTo(S, n) == UNION {[1..k -> S] : k \in 0..n}

OldSnapshot == <<ConnectionStats(<<Pair("a", Other("x")), Pair("b", Other("1"))>>)>>

\* the program inside its loop, the terminal set up
Running ==
    /\ table_state = [selected |-> <<>>]
    /\ pc = "key"
    /\ result = "none"
    /\ raw_mode = TRUE
    /\ teardown_calls = 0
    /\ clock = 1
    /\ last = NoStep
    /\ screen = NoFrame
    /\ matched = <<>>
    /\ parsed = NoParse
    /\ events = <<>>
    /\ rx = <<>>

AggInit ==
    /\ opt = [retention_period |-> DefaultRetentionPeriod, tab |-> <<TotalTab, OneTab>>]
    /\ tab_index \in 0..(Len(opt.tab) - 1)
    /\ \E conns \in SeqsUpTo({ConnectionStats(stats) : stats \in StatsPool}, MaxConns) :
           history = <<HistoryItem(0, OldSnapshot), HistoryItem(1, conns)>>
    /\ Running

\* s with its elements i and i+1 exchanged
Swap(s, i) ==
    [j \in DOMAIN s |-> IF j = i THEN s[i + 1] ELSE IF j = i + 1 THEN s[i] ELSE s[j]]

\* Ui::draw_aggregated_stats for the active tab
AggDraw ==
    /\ \E f \in AggregatedFrames(history, opt.tab[tab_index + 1]) : screen' = f
    /\ last' = [Step("draw") EXCEPT !.draw = "ok"]
    /\ UNCHANGED <<opt, history, tab_index, table_state, pc, result, raw_mode,
                   teardown_calls, clock, matched, parsed, events, rx>>

\* the same snapshot with two neighbouring connections exchanged
SwapConnections ==
    /\ \E i \in 1..(Len(Back(history).connections) - 1) :
           /\ Back(history).connections[i] # Back(history).connections[i + 1]
           /\ history' = [history EXCEPT
                             ![Len(history)].connections = Swap(Back(history).connections, i)]
    /\ last' = [last EXCEPT !.op = "swap"]
    /\ UNCHANGED <<opt, tab_index, table_state, pc, result, raw_mode, teardown_calls,
                   clock, screen, matched, parsed, events, rx>>

\* the same snapshot with two neighbouring pairs of one connection exchanged
SwapPairs ==
    /\ \E c \in DOMAIN Back(history).connections :
           \E i \in 1..(Len(Back(history).connections[c].stats) - 1) :
               history' = [history EXCEPT
                              ![Len(history)].connections[c].stats =
                                  Swap(Back(history).connections[c].stats, i)]
    /\ last' = [last EXCEPT !.op = "swap"]
    /\ UNCHANGED <<opt, tab_index, table_state, pc, result, raw_mode, teardown_calls,
                   clock, screen, matched, parsed, events, rx>>

AggNext ==
    \/ AggDraw
    \/ SwapConnections
    \/ SwapPairs

AggSpec == AggInit /\ [][AggNext]_vars

(***************************************************************************)
(* Properties of the aggregation.                                          *)
(***************************************************************************)
ActiveTab == opt.tab[tab_index + 1]

RECURSIVE SumInOrder(_)
\* the floating-point sum of a sequence of numbers, added from left to right
SumInOrder(iter) ==
    IF iter = <<>> THEN 0
    ELSE FAdd(SumInOrder(SubSeq(iter, 1, Len(iter) - 1)), iter[Len(iter)].n)

\* C7: each rendered row is a strict either/or. If every value of the key is a
\* number the Sum cell holds their sum and the Uniq cell is empty; otherwise the
\* Sum cell is empty and the Uniq cell holds the number of distinct values of the
\* whole set, the numbers among them counted too.
SumOrUniq ==
    last.draw = "ok" =>
        \A i \in DOMAIN screen.rows :
            LET item == screen.items[i]
                row == screen.rows[i]
            IN  /\ row.key = item.key
                /\ (row.sum = "") # (row.uniq = "")
                /\ IF \A v \in item.values : IsNumber(v)
                   THEN /\ row.uniq = ""
                        /\ row.sum \in {DecimalString(SumInOrder(iter)) :
                                           iter \in IterOrders(item.values)}
                   ELSE /\ row.sum = ""
                        /\ row.uniq = DecimalString(Cardinality(item.values))

\* a row whose key has one number and one other value: distinct count 2, no sum
MixedRow ==
    /\ last.draw = "ok"
    /\ \E i \in DOMAIN screen.rows :
           /\ Cardinality(screen.items[i].values) = 2
           /\ \E v, w \in screen.items[i].values : IsNumber(v) /\ ~IsNumber(w)
           /\ screen.rows[i].uniq = "2" /\ screen.rows[i].sum = ""

\* C8 as claimed: every frame that can be drawn from the snapshot, in whatever
\* order its connections and pairs come, equals the frame drawn before: the same
\* rows with the same key, value set and aggregated value.
OrderIndependent ==
    last.draw = "ok" => \A f \in AggregatedFrames(history, ActiveTab) : f = screen

\* C8, amended: every frame that can be drawn from the snapshot, in whatever
\* order its connections and pairs come, has the rows of the frame drawn before:
\* the same keys in the same order, the same value set, the same choice between
\* sum and distinct count and the same distinct count. (The sum is left out: it
\* is added up in the order the HashSet iterates.)
OrderIndependentButSum ==
    last.draw = "ok" =>
        \A f \in AggregatedFrames(history, ActiveTab) :
            /\ f.items = screen.items
            /\ \A i \in DOMAIN f.rows :
                   /\ f.rows[i].key = screen.rows[i].key
                   /\ f.rows[i].uniq = screen.rows[i].uniq
                   /\ (f.rows[i].sum = "") = (screen.rows[i].sum = "")

\* a table with a row of several values was drawn and connections or pairs of the
\* snapshot were exchanged since
PermutedAfterDraw ==
    /\ last.draw = "ok" /\ last.op = "swap"
    /\ \E i \in DOMAIN screen.items : Cardinality(screen.items[i].values) >= 2

\* some pair of the stats matches both patterns of the tab
SomePairMatches(tab, stats) ==
    \E i \in DOMAIN stats :
        /\ RegexIsMatch(tab.key_regex, stats[i].k)
        /\ RegexIsMatch(tab.value_regex, to_string(stats[i].v))

\* C9: the rows are those of the newest snapshot alone, and a connection
\* contributes all or nothing: the value set of a key is the set of the values
\* that the matching connections of the newest snapshot report for it, and a key
\* has a row iff that set is not empty.
NewestOnlyAllOrNothing ==
    last.draw = "ok" =>
        LET conns == history[Len(history)].connections
            matching == {c \in DOMAIN conns : SomePairMatches(ActiveTab, conns[c].stats)}
            values(k) == {conns[ci[1]].stats[ci[2]].v :
                             ci \in {cj \in matching \X (1..Cardinality(Keys)) :
                                        /\ cj[2] \in DOMAIN conns[cj[1]].stats
                                        /\ conns[cj[1]].stats[cj[2]].k = k}}
        IN  /\ {screen.items[i].key : i \in DOMAIN screen.items}
                   = {k \in Keys : values(k) # {}}
            /\ \A i \in DOMAIN screen.items :
                   screen.items[i].values = values(screen.items[i].key)

\* a table drawn from a newest snapshot with a matching connection that brings
\* along a pair that does not match, and a connection that does not match, while
\* the older snapshot's value of "a" is not in the table
AllOrNothingCase ==
    /\ last.draw = "ok"
    /\ \E c \in DOMAIN Back(history).connections :
           LET stats == Back(history).connections[c].stats
           IN  /\ SomePairMatches(ActiveTab, stats)
               /\ \E i \in DOMAIN stats : ~SomePairMatches(ActiveTab, <<stats[i]>>)
    /\ \E c \in DOMAIN Back(history).connections :
           LET stats == Back(history).connections[c].stats
           IN  stats # <<>> /\ ~SomePairMatches(ActiveTab, stats)
    /\ \E i \in DOMAIN screen.items :
           screen.items[i].key = "a" /\ Other("x") \notin screen.items[i].values

\* C20: the values of a key are a set. Among the rows drawn no key comes twice,
\* and the row of a key aggregates the distinct values that the matching
\* connections report for it, however many connections report the same value: the
\* sum of a row of numbers adds each distinct number once, and the count of any
\* other row is the number of distinct values.
DistinctValuesAggregated ==
    last.draw = "ok" =>
        LET conns == history[Len(history)].connections
            reports(k) == {ci \in (DOMAIN conns) \X (1..Cardinality(Keys)) :
                              /\ SomePairMatches(ActiveTab, conns[ci[1]].stats)
                              /\ ci[2] \in DOMAIN conns[ci[1]].stats
                              /\ conns[ci[1]].stats[ci[2]].k = k}
            distinct(k) == {conns[ci[1]].stats[ci[2]].v : ci \in reports(k)}
        IN  /\ \A i, j \in DOMAIN screen.rows :
                   i # j => screen.rows[i].key # screen.rows[j].key
            /\ \A i \in DOMAIN screen.rows :
                   LET d == distinct(screen.rows[i].key)
                   IN  /\ Cardinality(d) <= Cardinality(reports(screen.rows[i].key))
                       /\ IF \A v \in d : IsNumber(v)
                          THEN /\ screen.rows[i].uniq = ""
                               /\ screen.rows[i].sum \in
                                      {DecimalString(SumInOrder(iter)) : iter \in IterOrders(d)}
                          ELSE /\ screen.rows[i].sum = ""
                               /\ screen.rows[i].uniq = DecimalString(Cardinality(d))

\* two connections report the number 2 for the key "a" and its row shows the sum 2
EqualReportsCountOnce ==
    /\ last.draw = "ok"
    /\ tab_index = 0
    /\ \E c, d \in DOMAIN Back(history).connections :
           /\ c # d
           /\ \E i \in DOMAIN Back(history).connections[c].stats :
                  Back(history).connections[c].stats[i] = Pair("a", Number(2))
           /\ \E i \in DOMAIN Back(history).connections[d].stats :
                  Back(history).connections[d].stats[i] = Pair("a", Number(2))
    /\ \E i \in DOMAIN screen.rows :
           screen.rows[i].key = "a" /\ screen.rows[i].sum = "2"

(***************************************************************************)
(* Tab::is_match on its own: one connection, and a tab of any two patterns.*)
(***************************************************************************)
MatchInit ==
    /\ \E kre \in SUBSET Keys, vre \in SUBSET ValueStrings :
           opt = [retention_period |-> DefaultRetentionPeriod,
                  tab |-> <<[name |-> "t", key_regex |-> kre, value_regex |-> vre]>>]
    /\ tab_index = 0
    /\ \E stats \in StatsPool : history = <<HistoryItem(0, <<ConnectionStats(stats)>>)>>
    /\ Running

\* tab.is_match(&conn.stats) for the connection of the snapshot
IsMatch ==
    /\ matched' = <<is_match(ActiveTab, Back(history).connections[1].stats)>>
    /\ last' = Step("is_match")
    /\ UNCHANGED <<opt, history, tab_index, table_state, pc, result, raw_mode,
                   teardown_calls, clock, screen, parsed, events, rx>>

MatchNext == IsMatch

MatchSpec == MatchInit /\ [][MatchNext]_vars

\* C10: is_match is true iff one and the same pair has a key that matches the key
\* pattern and a value whose string form matches the value pattern; stats without
\* pairs never match.
MatchIffOnePairMatchesBoth ==
    matched # <<>> =>
        LET stats == Back(history).connections[1].stats
        IN  /\ matched[1] = SomePairMatches(ActiveTab, stats)
            /\ stats = <<>> => ~matched[1]

\* one pair matches only the key pattern, another only the value pattern: no match
SplitMatch ==
    /\ matched = <<FALSE>>
    /\ LET stats == Back(history).connections[1].stats
       IN  \E i, j \in DOMAIN stats :
               /\ RegexIsMatch(ActiveTab.key_regex, stats[i].k)
               /\ RegexIsMatch(ActiveTab.value_regex, to_string(stats[j].v))

(***************************************************************************)
(* Properties of the navigation keys and of the frame of each handler,     *)
(* in the event loop (Spec).                                               *)
(***************************************************************************)
\* a step of handle_key_event that reads the key code
KeyStep(code) == pc = "key" /\ last'.op = code

\* C14: Down selects row 0 when no row is selected and row i+1 when row i is,
\* however many rows the table has; Up selects row max(i-1, 0) when row i is
\* selected and row 0 when none is. A selection, once made, is never dropped, and
\* the selected row is never negative.
RowSelection ==
    /\ [](table_state.selected # <<>> => table_state.selected[1] >= 0)
    /\ [][/\ KeyStep("Down") =>
                 table_state'.selected =
                     IF table_state.selected = <<>> THEN <<0>>
                     ELSE <<table_state.selected[1] + 1>>
          /\ KeyStep("Up") =>
                 table_state'.selected =
                     IF table_state.selected = <<>> THEN <<0>>
                     ELSE IF table_state.selected[1] - 1 > 0
                          THEN <<table_state.selected[1] - 1>>
                          ELSE <<0>>
          /\ table_state.selected # <<>> => table_state'.selected # <<>>]_vars

\* Down has selected a row beyond the rows of the table drawn
DownPastLastRow ==
    /\ last.op = "Down" /\ last.draw = "ok"
    /\ table_state.selected # <<>>
    /\ table_state.selected[1] >= 1
    /\ table_state.selected[1] >= Len(screen.rows)

\* C15: Left and Right, whether the tab index changes or not, leave the selected
\* row as it is, and Up and Down leave the tab index as it is.
TabAndRowApart ==
    [][/\ (KeyStep("Left") \/ KeyStep("Right")) => table_state' = table_state
       /\ (KeyStep("Up") \/ KeyStep("Down")) => tab_index' = tab_index]_vars

\* the tab has been switched and drawn with a selected row that its table lacks
SelectionPastNewTab ==
    /\ last.op \in {"Left", "Right"} /\ last.draw = "ok"
    /\ table_state.selected # <<>>
    /\ table_state.selected[1] >= Len(screen.rows)

\* the state of the Ui and the screen stay as they are, nothing is drawn and the
\* loop goes on
Quiet ==
    /\ history' = history
    /\ tab_index' = tab_index
    /\ table_state' = table_state
    /\ screen' = screen
    /\ last'.draw = "none"
    /\ pc' # "done"

\* C16: every handler changes its own part of the state only. Ingesting a
\* snapshot leaves the tab index and the selection alone; Left and Right change the
\* tab index at most and Up and Down the selection at most, and none of them the
\* history; a receive timeout, a key without a meaning and an event that is no key
\* change nothing and draw nothing, and so do Right at the last tab and Left at
\* tab 0.
OwnPartOnly ==
    [][/\ IngestStep => tab_index' = tab_index /\ table_state' = table_state
       /\ (KeyStep("Left") \/ KeyStep("Right")) =>
              history' = history /\ table_state' = table_state
       /\ (KeyStep("Up") \/ KeyStep("Down")) =>
              history' = history /\ tab_index' = tab_index
       /\ (pc = "poll" /\ last'.op = "Timeout") => Quiet
       /\ (KeyStep("Other") \/ KeyStep("Resize")) => Quiet
       /\ (KeyStep("Right") /\ tab_index = Len(opt.tab) - 1) => Quiet
       /\ (KeyStep("Left") /\ tab_index = 0) => Quiet]_vars

\* an event that is no key has been read while a snapshot was on the screen and a
\* row selected
ResizeAfterData ==
    /\ last.op = "Resize"
    /\ history # <<>>
    /\ table_state.selected # <<>>
    /\ screen # NoFrame

(***************************************************************************)
(* The event loop with its two queues followed: the terminal's input       *)
(* events and the channel's snapshots wait until the loop reads them.      *)
(***************************************************************************)
\* the loop is entered with the default retention period and two tabs; the clock
\* is not followed any further
TickInit ==
    /\ opt = [retention_period |-> DefaultRetentionPeriod, tab |-> <<TotalTab, OneTab>>]
    /\ UiNew
    /\ pc = "key"
    /\ result = "none"
    /\ raw_mode = TRUE
    /\ teardown_calls = 0
    /\ clock = MaxClock
    /\ last = NoStep
    /\ screen = NoFrame
    /\ matched = <<>>
    /\ parsed = NoParse
    /\ events = <<>>
    /\ rx = <<>>

\* the terminal: an input event comes in while the program runs
Input ==
    /\ pc # "done"
    /\ Len(events) < MaxPending
    /\ \E e \in Events : events' = Append(events, e)
    /\ UNCHANGED <<opt, history, tab_index, table_state, pc, result, raw_mode,
                   teardown_calls, clock, last, screen, matched, parsed, rx>>

\* the polling thread: a snapshot is sent while the receiver lives
CollectorSend ==
    /\ pc # "done"
    /\ Len(rx) < MaxPending
    /\ \E connections \in SnapshotPool : rx' = Append(rx, connections)
    /\ UNCHANGED <<opt, history, tab_index, table_state, pc, result, raw_mode,
                   teardown_calls, clock, last, screen, matched, parsed, events>>

TickNext ==
    \/ Input
    \/ CollectorSend
    \/ KeyIoError
    \/ KeyNone
    \/ KeyQuit
    \/ KeyRight
    \/ KeyLeft
    \/ KeyUp
    \/ KeyDown
    \/ KeyIgnored
    \/ PollTimeout
    \/ PollDisconnected
    \/ PollSnapshot

TickSpec == TickInit /\ [][TickNext]_vars

\* a step of the program (the other steps are the terminal's and the polling
\* thread's)
ProgramStep == pc' # pc

\* q with its first element taken, or q as it is
AtMostHeadTaken(q, r) == r = q \/ (q # <<>> /\ r = Tail(q))

EndsOnQuitClosureOrIoError ==
    pc = "done" =>
        \/ last.op = "q" /\ result = "Ok"
        \/ last.op = "Disconnected" /\ result = "Err"
        \/ last.op = "io error" /\ result = "Err"
        \/ last.draw = "err" /\ result = "Err"

\* C19: a drawing that fails with an I/O error of the backend, in the redraw of a
\* navigation key or of a new snapshot, does not end the loop: the program goes
\* on to its next phase, where a later redraw draws again.
RenderFailureNotFatal ==
    last.draw = "err" => pc \in {"key", "poll"} /\ result = "none"

(***************************************************************************)
(* The navigation keys on their own: one snapshot is retained, up to       *)
(* MaxTabs + 1 tabs are configured, and the channel stays silent.          *)
(***************************************************************************)
NavInit ==
    /\ \E n \in 1..(MaxTabs + 1) :
           opt = [retention_period |-> DefaultRetentionPeriod,
                  tab |-> [i \in 1..n |-> TabOption(i)]]
    /\ \E connections \in SnapshotPool : history = <<HistoryItem(0, connections)>>
    /\ tab_index = 0
    /\ Running
    /\ parsed = NoParse
    /\ events = <<>>
    /\ rx = <<>>

NavNext ==
    \/ KeyRight
    \/ KeyLeft
    \/ KeyUp
    \/ KeyDown
    \/ PollTimeout

NavSpec == NavInit /\ [][NavNext]_vars

\* a step that handles a navigation key
NavStep == pc = "key" /\ last'.op \in {"Right", "Left", "Up", "Down"}

\* C13 as claimed: after any navigation command, the same command once more leaves
\* the pair of tab index and selected row as it is.
CommandsIdempotent ==
    [][NavStep =>
          Apply(last'.op, tab_index', table_state'.selected)
              = <<tab_index', table_state'.selected>>]_vars

\* C13, amended: a navigation command changes the pair of tab index and selected
\* row as its key says, and the same command once more leaves the pair as it is
\* exactly when the first one has brought it to the end of its way: Right to the
\* last tab, Left to tab 0, Up to row 0; Down never.
IdempotentAtBoundOnly ==
    [][NavStep =>
          LET once == <<tab_index', table_state'.selected>>
              twice == Apply(last'.op, tab_index', table_state'.selected)
          IN  /\ once = Apply(last'.op, tab_index, table_state.selected)
              /\ (twice = once) <=>
                     \/ last'.op = "Right" /\ tab_index' = Len(opt.tab) - 1
                     \/ last'.op = "Left" /\ tab_index' = 0
                     \/ last'.op = "Up" /\ table_state'.selected = <<0>>]_vars

\* Right has led to a tab that is not the last: one more Right moves on
RightShortOfLastTab ==
    /\ last.op = "Right" /\ last.draw = "ok"
    /\ tab_index < Len(opt.tab) - 1

(***************************************************************************)
(* Tab::from_str on its own.  A text is a sequence of characters, and a    *)
(* Regex is held here by the pattern it was compiled from.                 *)
(***************************************************************************)
\* a letter, the two separators, and a character that opens a group
Chars == {"n", "=", ":", "("}

Texts == SeqsUpTo(Chars, MaxSpecLen)

\* the split at the last ch in place of the first
rsplitn2(s, ch) ==
    LET at == {i \in DOMAIN s : s[i] = ch}
    IN  IF at = {} THEN <<s>>
        ELSE LET i == CHOOSE j \in at : \A k \in at : k <= j
             IN  <<SubSeq(s, 1, i - 1), SubSeq(s, i + 1, Len(s))>>

RECURSIVE splitn2(_, _)
\* s.splitn(2, ch).collect(): s cut at its first ch, the ch dropped; s alone when
\* it has no ch
splitn2(s, ch) ==
    IF s = <<>> THEN <<s>>
    ELSE IF Head(s) = ch THEN <<<<>>, Tail(s)>>
         ELSE LET r == splitn2(Tail(s), ch)
              IN  [r EXCEPT ![1] = <<Head(s)>> \o r[1]]

\* regex::Regex::new: a pattern with a group that is never closed does not compile
RegexNew(pattern) ==
    IF \E i \in DOMAIN pattern : pattern[i] = "("
    THEN Err([kind |-> "regex syntax error", spec |-> pattern, expected |-> ""])
    ELSE Ok(pattern)

\* the error of anyhow::bail!: the text of the spec and the expected format
InvalidTabSpec(s) ==
    Err([kind |-> "invalid tab spec", spec |-> s,
         expected |-> "$NAME=$KEY_REGEX:$VALUE_REGEX"])

\* <Tab as FromStr>::from_str
from_str(s) ==
    LET name_rest == splitn2(s, "=")
    IN  IF Len(name_rest) = 2
        THEN LET k_v == splitn2(name_rest[2], ":")
             IN  IF Len(k_v) = 2
                 THEN LET key_regex == RegexNew(k_v[1])
                          value_regex == RegexNew(k_v[2])
                      IN  IF key_regex.tag = "Err" THEN key_regex
                          ELSE IF value_regex.tag = "Err" THEN value_regex
                          ELSE Ok([name |-> name_rest[1], key_regex |-> key_regex.val,
                                   value_regex |-> value_regex.val])
                 ELSE InvalidTabSpec(s)
        ELSE InvalidTabSpec(s)

\* the command line is being parsed: a --tab option with any text, no Tab yet
ParseInit ==
    /\ opt = [retention_period |-> DefaultRetentionPeriod, tab |-> <<>>]
    /\ UiNew
    /\ pc = "new"
    /\ result = "none"
    /\ raw_mode = FALSE
    /\ teardown_calls = 0
    /\ clock = 0
    /\ last = NoStep
    /\ screen = NoFrame
    /\ matched = <<>>
    /\ \E s \in Texts : parsed = [NoParse EXCEPT !.s = s]
    /\ events = <<>>
    /\ rx = <<>>

\* the text of the option is parsed; a Tab that comes out is added to opt.tab
FromStr ==
    /\ parsed.result = <<>>
    /\ LET res == from_str(parsed.s)
       IN  /\ parsed' = [parsed EXCEPT !.result = <<res>>]
           /\ opt' = IF res.tag = "Ok" THEN [opt EXCEPT !.tab = Append(@, res.val)] ELSE opt
    /\ last' = Step("from_str")
    /\ UNCHANGED <<history, tab_index, table_state, pc, result, raw_mode, teardown_calls,
                   clock, screen, matched, events, rx>>

ParseNext == FromStr

ParseSpec == ParseInit /\ [][ParseNext]_vars

\* the index of the first ch in s from index i on, 0 when there is none
FirstIndex(s, ch, i) ==
    LET at == {j \in i..Len(s) : s[j] = ch}
    IN  IF at = {} THEN 0 ELSE CHOOSE j \in at : \A k \in at : j <= k

Compiles(pattern) == RegexNew(pattern).tag = "Ok"

\* C11: from_str cuts the text at its first "=" into the name and a remainder, and
\* the remainder at its first ":" into the key pattern and the value pattern, so
\* that later "=" and ":" stay in the value pattern and a ":" before the first "="
\* stays in the name. A text without "=", or without ":" after its first "=",
\* fails with the error that carries the text and the format
\* "$NAME=$KEY_REGEX:$VALUE_REGEX". No failure produces a Tab.
TabFromText ==
    parsed.result # <<>> =>
        LET s == parsed.s
            res == parsed.result[1]
            eq == FirstIndex(s, "=", 1)
            colon == IF eq = 0 THEN 0 ELSE FirstIndex(s, ":", eq + 1)
            k == SubSeq(s, eq + 1, colon - 1)
            v == SubSeq(s, colon + 1, Len(s))
        IN  /\ (eq = 0 \/ colon = 0) =>
                   /\ res.tag = "Err"
                   /\ res.val.kind = "invalid tab spec"
                   /\ res.val.spec = s
                   /\ res.val.expected = "$NAME=$KEY_REGEX:$VALUE_REGEX"
            /\ (eq # 0 /\ colon # 0) =>
                   /\ res.tag = "Ok" <=> (Compiles(k) /\ Compiles(v))
                   /\ res.tag = "Ok" =>
                          res.val = [name |-> SubSeq(s, 1, eq - 1), key_regex |-> k,
                                     value_regex |-> v]
            /\ opt.tab = IF res.tag = "Ok" THEN <<res.val>> ELSE <<>>

\* a Tab whose value pattern has kept an "=" and a ":" of the text
LaterSeparatorsKept ==
    /\ parsed.result # <<>>
    /\ parsed.result[1].tag = "Ok"
    /\ \E i, j \in DOMAIN parsed.result[1].val.value_regex :
           /\ parsed.result[1].val.value_regex[i] = "="
           /\ parsed.result[1].val.value_regex[j] = ":"

====
